---------------------------- MODULE Spec2Model ----------------------------
(***************************************************************************)
(* A model of mdu (multithreaded du): the task queue of t_queue.c built on *)
(* the list of list.c, the thread pool and the recursive traversal of      *)
(* mdu.c, and the driver that runs every root target.                      *)
(*                                                                         *)
(* A path is the tuple of its components (<<"r", "d">> is r/d), the file   *)
(* system is a fixed tree whose status and open failures are drawn in      *)
(* Init, and every pthread_mutex_lock is a step of its own, so that the    *)
(* holder of the mutex is part of the state.                               *)
(***************************************************************************)
EXTENDS Integers, Sequences, FiniteSets, Bags, TLC

\* Largest -j value drawn (thread_amount ranges over 1..MaxThreads).
MaxThreads == 2

\* Largest number of root targets on the command line.
MaxRoots == 2

\* Largest number of tasks the calls of the queue's interface create.
MaxTasks == 4

NULL == <<>>

Main == 0
Free == -1

Threads == 1..MaxThreads

-----------------------------------------------------------------------------
(* The file system the program walks.                                      *)

Above == <<>>

Nodes == {Above, <<"r">>, <<"r", "a">>, <<"r", "d">>, <<"r", "u">>,
          <<"r", "d", "f">>, <<"r", "d", "l">>}

\* st_mode of each entry: directory, regular file, or another type (a symbolic link).
St_mode ==
    (Above :> "DIR") @@ (<<"r">> :> "DIR") @@ (<<"r", "a">> :> "REG") @@
    (<<"r", "d">> :> "DIR") @@ (<<"r", "u">> :> "DIR") @@
    (<<"r", "d", "f">> :> "REG") @@ (<<"r", "d", "l">> :> "LNK")

\* st_blocks of each entry; distinct powers of two, so a total tells which entries it counts.
St_blocks ==
    (Above :> 64) @@ (<<"r">> :> 1) @@ (<<"r", "a">> :> 2) @@
    (<<"r", "d">> :> 4) @@ (<<"r", "u">> :> 8) @@
    (<<"r", "d", "f">> :> 16) @@ (<<"r", "d", "l">> :> 32)

\* The names readdir returns for a directory, in the order it returns them.
Dirents ==
    (Above :> <<".", "..", "r">>) @@
    (<<"r">> :> <<".", "..", "a", "d", "u">>) @@
    (<<"r", "d">> :> <<".", "..", "f", "l">>) @@
    (<<"r", "u">> :> <<".", "..">>)

Dirs == {n \in Nodes : St_mode[n] = "DIR"}

\* The paths a user may give as root targets.
RootTargets == {<<"r">>, <<"r", "d">>, <<"r", "a">>}

\* The command lines drawn: every list of up to MaxRoots of these targets, the two
\* entries of r/d given as separate targets, and the three entries of r likewise.
RootLists ==
    UNION {[1..n -> RootTargets] : n \in 1..MaxRoots}
        \cup {<< <<"r", "d", "f">>, <<"r", "d", "l">> >>,
              << <<"r", "d", "l">>, <<"r", "d", "f">> >>,
              << <<"r", "a">>, <<"r", "d">>, <<"r", "u">> >>}

\* The targets that occur on the command lines drawn.
Targets == UNION {{l[k] : k \in 1..Len(l)} : l \in RootLists}

\* The entries whose lstat may fail, and the directories whose opendir may fail.
StatFaults ==
    {{}, {<<"r">>}, {<<"r", "a">>}, {<<"r", "u">>}, {<<"r", "d", "f">>}}
OpenFaults == SUBSET {<<"r", "d">>, <<"r", "u">>}

VARIABLES
    fs,             \* [stat_fail, open_fail]: the entries lstat and opendir fail on
    path_names,     \* main: the list of root targets
    thread_amount,  \* Task_queue.thread_amount
    task_q,         \* Task_queue.task_q: the list of pending tasks
    mutex,          \* Task_queue.mutex: its holder, or Free
    cond,           \* Task_queue.cond: the threads blocked in pthread_cond_wait
    block_size,     \* Task_queue.block_size
    t_running,      \* Task_queue.t_running
    shutdown,       \* Task_queue.shutdown
    permission,     \* Task_queue.permission
    pc,             \* the position of each worker thread
    loc,            \* the local variables of each worker thread
    mpc,            \* the position of the main thread
    current_pos,    \* start_options_and_run: the position in path_names
    i_main,         \* run_mult_thread: the loop index of the create and join loops
    mem,            \* the heap: [live: the allocated objects, fault: the first misuse]
    stdout,         \* the summary lines printed
    stderr,         \* how many diagnostics each target's run printed for each directory
    exit_status,    \* the status the process exited with
    hist,           \* what happened in the run of the current target (see NoHistory)
    outside_task    \* t_queue_test.c: the task the last dequeue returned

vars == <<fs, path_names, thread_amount, task_q, mutex, cond, block_size, t_running,
          shutdown, permission, pc, loc, mpc, current_pos, i_main, mem, stdout,
          stderr, exit_status, hist, outside_task>>

-----------------------------------------------------------------------------
(* make_path, lstat, opendir.                                              *)

\* make_path appends the name to the path (with a separator between the two).
make_path(name, absolute_path) == Append(absolute_path, name)

\* The entry a path names: "." stays, ".." goes up.
RECURSIVE Resolve(_, _)
Resolve(path, at) ==
    IF path = <<>> THEN at
    ELSE IF Head(path) = "." THEN Resolve(Tail(path), at)
    ELSE IF Head(path) = ".."
         THEN Resolve(Tail(path), IF at = <<>> THEN at ELSE SubSeq(at, 1, Len(at) - 1))
    ELSE Resolve(Tail(path), Append(at, Head(path)))

lstat(path) ==
    LET n == Resolve(path, <<>>) IN
    IF n \notin Nodes \/ n \in fs.stat_fail
    THEN [check |-> -1, st_mode |-> "NONE", st_blocks |-> 0]
    ELSE [check |-> 0, st_mode |-> St_mode[n], st_blocks |-> St_blocks[n]]

S_ISDIR(buf) == buf.st_mode = "DIR"
S_ISREG(buf) == buf.st_mode = "REG"

\* opendir(path) returns NULL (FALSE here) when the directory cannot be read.
opendir(path) == Resolve(path, <<>>) \in Dirs /\ Resolve(path, <<>>) \notin fs.open_fail

\* The names readdir returns for an opened directory.
readdir(path) == Dirents[Resolve(path, <<>>)]

-----------------------------------------------------------------------------
(* The heap: malloc, free and the uses of an allocated object.             *)

TaskObj(path, n) == [kind |-> "Task", path |-> path, n |-> n]
CopyObj(task) == [task.ptr EXCEPT !.kind = "copy"]
PathObj(path) == [kind |-> "path", path |-> path, n |-> 0]
\* The DIR handle opendir returns to the thread n for the directory path.
DirObj(path, n) == [kind |-> "DIR", path |-> path, n |-> n]

malloc(m, obj) ==
    IF m.fault # "none" THEN m
    ELSE IF obj \in m.live THEN [m EXCEPT !.fault = "allocated twice"]
    ELSE [m EXCEPT !.live = @ \cup {obj}]

free(m, obj) ==
    IF m.fault # "none" THEN m
    ELSE IF obj \notin m.live THEN [m EXCEPT !.fault = "freed twice"]
    ELSE [m EXCEPT !.live = @ \ {obj}]

use(m, obj) ==
    IF m.fault # "none" \/ obj \in m.live THEN m
    ELSE [m EXCEPT !.fault = "used after free"]

\* A get_size_of_dir that returns without closing the directory.
closedir_never(m, dir) == m

\* closedir releases the handle (line 263).
closedir(m, dir) == free(m, dir)

-----------------------------------------------------------------------------
(* list.c: a list is the sequence of its values; position 0 is the head    *)
(* node (list_end), position k the k-th node.                              *)

list_is_empty(lst) == Len(lst) = 0

list_first(lst) == IF Len(lst) = 0 THEN 0 ELSE 1

list_end(lst) == 0

\* A list_next that steps over the element after pos.
list_next_skip(lst, pos) == IF pos + 1 >= Len(lst) THEN 0 ELSE pos + 2

list_next(lst, pos) == IF pos = Len(lst) THEN 0 ELSE pos + 1

list_prev(lst, pos) == IF pos = 0 THEN Len(lst) ELSE pos - 1

list_inspect(lst, pos) == lst[pos]

\* The new node is linked between pos.node->prev and pos.node.
list_insert(lst, pos, value) ==
    LET before == list_prev(lst, pos) IN
    SubSeq(lst, 1, before) \o <<value>> \o SubSeq(lst, before + 1, Len(lst))

\* list_remove unlinks the node; the caller frees its value (free(pos.node->value)).
list_remove(lst, pos) == SubSeq(lst, 1, pos - 1) \o SubSeq(lst, pos + 1, Len(lst))

-----------------------------------------------------------------------------
(* t_queue.c: the operations return the new queue and the new heap.        *)

NoTask == [task_pointer |-> "none", path |-> NULL, ptr |-> TaskObj(NULL, 0)]

\* create_task(path, task_pointer); n tells the tasks without a path apart.
\* The value of a Task pointer that was not assigned, or whose task was freed.
Unassigned == [task_pointer |-> "unassigned", path |-> NULL, ptr |-> TaskObj(NULL, 0)]

\* The task in the queue that the task dequeue returned is the copy of.
Original(task) == [task.ptr EXCEPT !.kind = "Task"]

create_task(m, path, task_pointer, n) ==
    [task |-> [task_pointer |-> task_pointer, path |-> path, ptr |-> TaskObj(path, n)],
     mem |-> malloc(m, TaskObj(path, n))]

enqueue(queue, task) == list_insert(queue, list_prev(queue, list_first(queue)), task)

queue_is_empty(queue) == list_is_empty(queue)

\* A dequeue that returns the copy and leaves the task in the list.
dequeue_no_remove(m, queue) ==
    IF ~queue_is_empty(queue)
    THEN LET task == list_inspect(queue, list_prev(queue, list_end(queue)))
             copy_task == [task EXCEPT !.ptr = CopyObj(task)]
         IN [task |-> copy_task, queue |-> queue, mem |-> malloc(use(m, task.ptr), copy_task.ptr)]
    ELSE [task |-> NoTask, queue |-> queue, mem |-> m]

\* dequeue copies the task at list_prev(list_end) and frees the one in the list.
dequeue(m, queue) ==
    IF ~queue_is_empty(queue)
    THEN LET task_pos == list_prev(queue, list_end(queue))
             task == list_inspect(queue, task_pos)
             copy_task == [task EXCEPT !.ptr = CopyObj(task)]
         IN [task |-> copy_task,
             queue |-> list_remove(queue, task_pos),
             mem |-> free(malloc(use(m, task.ptr), copy_task.ptr), task.ptr)]
    ELSE [task |-> NoTask, queue |-> queue, mem |-> m]

\* A kill_task that frees the task and not its path.
kill_task_keep_path(m, task) ==
    IF task # NoTask THEN free(use(m, task.ptr), task.ptr) ELSE m

kill_task(m, task) ==
    IF task # NoTask
    THEN LET m1 == IF task.path # NULL THEN free(use(m, task.ptr), PathObj(task.path))
                   ELSE use(m, task.ptr)
         IN free(m1, task.ptr)
    ELSE m

\* The loop of destroy_queue (and of start_options_and_run): kill_task(dequeue(queue)).
RECURSIVE clear_queue(_, _)
clear_queue(m, queue) ==
    IF queue_is_empty(queue) THEN m
    ELSE LET d == dequeue(m, queue) IN clear_queue(kill_task(d.mem, d.task), d.queue)

-----------------------------------------------------------------------------
(* mdu.c: one entry of the loop of get_size_of_dir, and the recursive      *)
(* traversal used when thread_amount is 1.                                 *)

\* A readdir loop that adds the blocks of ".." as it adds those of a regular file.
dir_entry_no_dotdot(absolute_path, absolute_path_buf, name) ==
    LET new_absolute_path == make_path(name, absolute_path)
        new_absolute_path_buf == lstat(new_absolute_path)
    IN  IF new_absolute_path_buf.check < 0
        THEN [stop |-> TRUE, add |-> absolute_path_buf.st_blocks, subdir |-> FALSE,
              path |-> new_absolute_path]
        ELSE IF name = "."
        THEN [stop |-> FALSE, add |-> new_absolute_path_buf.st_blocks, subdir |-> FALSE,
              path |-> new_absolute_path]
        ELSE IF name = ".." \/ S_ISREG(new_absolute_path_buf)
        THEN [stop |-> FALSE, add |-> new_absolute_path_buf.st_blocks,
              subdir |-> FALSE, path |-> new_absolute_path]
        ELSE [stop |-> FALSE, add |-> 0, subdir |-> TRUE, path |-> new_absolute_path]

\* A readdir loop that goes on to the next entry after a failed status call.
dir_entry_continue(absolute_path, absolute_path_buf, name) ==
    LET new_absolute_path == make_path(name, absolute_path)
        new_absolute_path_buf == lstat(new_absolute_path)
    IN  IF new_absolute_path_buf.check < 0
        THEN [stop |-> FALSE, add |-> absolute_path_buf.st_blocks, subdir |-> FALSE,
              path |-> new_absolute_path]
        ELSE IF name = "."
        THEN [stop |-> FALSE, add |-> new_absolute_path_buf.st_blocks, subdir |-> FALSE,
              path |-> new_absolute_path]
        ELSE IF name # ".."
        THEN IF S_ISREG(new_absolute_path_buf)
             THEN [stop |-> FALSE, add |-> new_absolute_path_buf.st_blocks,
                   subdir |-> FALSE, path |-> new_absolute_path]
             ELSE [stop |-> FALSE, add |-> 0, subdir |-> TRUE, path |-> new_absolute_path]
        ELSE [stop |-> FALSE, add |-> 0, subdir |-> FALSE, path |-> new_absolute_path]

\* What the body of the readdir loop does with the entry `name`, short of the
\* enqueue or the recursive call: stop (the break), the blocks it adds, and
\* whether the entry is handed on as a directory.
dir_entry(absolute_path, absolute_path_buf, name) ==
    LET new_absolute_path == make_path(name, absolute_path)
        new_absolute_path_buf == lstat(new_absolute_path)
    IN  IF new_absolute_path_buf.check < 0
        THEN [stop |-> TRUE, add |-> absolute_path_buf.st_blocks, subdir |-> FALSE,
              path |-> new_absolute_path]
        ELSE IF name = "."
        THEN [stop |-> FALSE, add |-> new_absolute_path_buf.st_blocks, subdir |-> FALSE,
              path |-> new_absolute_path]
        ELSE IF name # ".."
        THEN IF S_ISREG(new_absolute_path_buf)
             THEN [stop |-> FALSE, add |-> new_absolute_path_buf.st_blocks,
                   subdir |-> FALSE, path |-> new_absolute_path]
             ELSE [stop |-> FALSE, add |-> 0, subdir |-> TRUE, path |-> new_absolute_path]
        ELSE [stop |-> FALSE, add |-> 0, subdir |-> FALSE, path |-> new_absolute_path]

\* The result of a recursive traversal: the blocks, the value left in *permission
\* (given the value it had), the diagnostics printed, in order, and the opendir and
\* closedir calls made, in order.
RECURSIVE get_block_size(_, _)
RECURSIVE get_size_of_dir(_, _, _, _)

get_block_size(absolute_path, perm) ==
    LET absolute_path_buf == lstat(absolute_path) IN
    IF absolute_path_buf.check < 0
    THEN [block_size |-> 0, permission |-> perm, stderr |-> <<>>, dirs |-> <<>>]
    ELSE IF S_ISDIR(absolute_path_buf)
    THEN IF ~opendir(absolute_path)
         THEN [block_size |-> absolute_path_buf.st_blocks, permission |-> FALSE,
               stderr |-> <<absolute_path>>, dirs |-> <<>>]
         ELSE get_size_of_dir(absolute_path, absolute_path_buf, 1,
                              [block_size |-> 0, permission |-> perm, stderr |-> <<>>,
                               dirs |-> <<[op |-> "opendir", path |-> absolute_path]>>])
    ELSE [block_size |-> absolute_path_buf.st_blocks, permission |-> perm,
          stderr |-> <<>>, dirs |-> <<>>]

\* The loop of get_size_of_dir with multithread false, from the idx-th entry on.
get_size_of_dir(absolute_path, absolute_path_buf, idx, acc) ==
    LET closed == Append(acc.dirs, [op |-> "closedir", path |-> absolute_path]) IN
    IF idx > Len(readdir(absolute_path)) THEN [acc EXCEPT !.dirs = closed]
    ELSE LET e == dir_entry(absolute_path, absolute_path_buf, readdir(absolute_path)[idx]) IN
         IF e.stop THEN [acc EXCEPT !.block_size = @ + e.add, !.dirs = closed]
         ELSE IF e.subdir
         THEN LET r == get_block_size(e.path, acc.permission) IN
              get_size_of_dir(absolute_path, absolute_path_buf, idx + 1,
                              [block_size |-> acc.block_size + r.block_size,
                               permission |-> r.permission,
                               stderr |-> acc.stderr \o r.stderr,
                               dirs |-> acc.dirs \o r.dirs])
         ELSE get_size_of_dir(absolute_path, absolute_path_buf, idx + 1,
                              [acc EXCEPT !.block_size = @ + e.add])

-----------------------------------------------------------------------------
(* The initial state: main has parsed its arguments and created the queue. *)

NoLocals ==
    [task |-> NoTask, new_task |-> NoTask, ret |-> "none", temp_block_size |-> 0,
     block_size |-> 0, st_blocks |-> 0, idx |-> 0, queue_empty |-> FALSE,
     t_running |-> 0, i |-> 0]

\* Nothing has happened yet in the run of a target: the number of calls of
\* kill_task_initializer that found its condition true, the tasks given to add_task,
\* the tasks the workers dequeued, and the pthread calls that reported a failure.
NoHistory == [quiescent |-> 0, enqueued |-> EmptyBag, dequeued |-> EmptyBag, failed |-> {}]

\* The length of the longest command line drawn.
MaxTargets ==
    LET lens == {Len(l) : l \in RootLists} IN CHOOSE n \in lens : \A m \in lens : m <= n

NoDiagnostics == [k \in 1..MaxTargets |-> [d \in Dirs |-> 0]]

create_task_queue ==
    /\ task_q = <<>>
    /\ block_size = 0
    /\ t_running = 0
    /\ shutdown = FALSE
    /\ permission = TRUE
    /\ mutex = Free
    /\ cond = {}

Init ==
    /\ fs \in [stat_fail : StatFaults, open_fail : OpenFaults]
    /\ thread_amount \in 1..MaxThreads
    /\ path_names \in RootLists
    /\ create_task_queue
    /\ pc = [w \in Threads |-> "none"]
    /\ loc = [w \in Threads |-> NoLocals]
    /\ mpc = "start_options_and_run"
    /\ current_pos = list_first(path_names)
    /\ i_main = 0
    /\ mem = [live |-> {}, fault |-> "none"]
    /\ stdout = <<>>
    /\ stderr = NoDiagnostics
    /\ exit_status = "running"
    /\ hist = NoHistory
    /\ outside_task = Unassigned

-----------------------------------------------------------------------------
(* The mutex and the condition variable.                                   *)

\* Where a thread that blocks in pthread_mutex_lock continues once it holds the mutex.
AfterLock ==
    [run_thread |-> "rt_while", woken |-> "rt_wait_loop",
     shutdown_threads |-> "shutdown_threads_locked",
     gbsm_denied |-> "gbsm_denied_locked", add_task |-> "add_task_locked",
     run_task_lock |-> "run_task_locked", rt_relock |-> "rt_kill_task"]

pthread_mutex_lock(w) ==
    /\ pc[w] \in DOMAIN AfterLock
    /\ mutex = Free
    /\ mutex' = w
    /\ pc' = [pc EXCEPT ![w] = AfterLock[pc[w]]]
    /\ UNCHANGED <<fs, outside_task, hist,
                   path_names, thread_amount, task_q, cond, block_size, t_running,
                   shutdown, permission, loc, mpc, current_pos, i_main, mem, stdout,
                   stderr, exit_status>>

\* An unlock that leaves the mutex with the thread that calls it.
pthread_mutex_unlock_none(w) == w

\* The holder of the mutex after thread w has unlocked it.
pthread_mutex_unlock(w) == Free

\* pthread_cond_signal unblocks one of the threads blocked on the condition, if any;
\* the thread wakes up and has to take the mutex again.
pthread_cond_signal(woken) ==
    /\ woken \in (IF cond = {} THEN {Main} ELSE cond)
    /\ cond' = cond \ {woken}

\* pthread_cond_wait may return with no signal sent.
spurious_wakeup(w) ==
    /\ pc[w] = "cond_wait"
    /\ w \in cond
    /\ cond' = cond \ {w}
    /\ pc' = [pc EXCEPT ![w] = "woken"]
    /\ UNCHANGED <<fs, outside_task, hist,
                   path_names, thread_amount, task_q, mutex, block_size, t_running,
                   shutdown, permission, loc, mpc, current_pos, i_main, mem, stdout,
                   stderr, exit_status>>

-----------------------------------------------------------------------------
(* run_thread.                                                             *)

\* A run_thread that counts a dequeued task twice.
t_running_inc_twice(n) == n + 2

\* Line 351: t_queue->t_running++.
t_running_inc(n) == n + 1

\* The loops of run_thread from a point where the thread holds the mutex: the test
\* of the outer loop (when `outer`), then the inner loop's test, then either the
\* wait, or the dequeue up to the unlock. m is the heap at that point.
rt_loop(w, m, outer) ==
    IF outer /\ shutdown
    THEN /\ mutex' = pthread_mutex_unlock(w)
         /\ pc' = [pc EXCEPT ![w] = "done"]
         /\ loc' = [loc EXCEPT ![w] = NoLocals]
         /\ mem' = m
         /\ UNCHANGED <<cond, task_q, t_running, hist>>
    ELSE IF queue_is_empty(task_q)
    THEN /\ mutex' = Free
         /\ cond' = cond \cup {w}
         /\ pc' = [pc EXCEPT ![w] = "cond_wait"]
         /\ loc' = [loc EXCEPT ![w] = NoLocals]
         /\ mem' = m
         /\ UNCHANGED <<task_q, t_running, hist>>
    ELSE LET d == dequeue(m, task_q) IN
         /\ task_q' = d.queue
         /\ t_running' = t_running_inc(t_running)
         /\ mutex' = pthread_mutex_unlock(w)
         /\ pc' = [pc EXCEPT ![w] = "run_task"]
         /\ loc' = [loc EXCEPT ![w] = [NoLocals EXCEPT !.task = d.task]]
         /\ mem' = d.mem
         /\ hist' = [hist EXCEPT !.dequeued = @ (+) SetToBag({Original(d.task)})]
         /\ UNCHANGED cond

\* After the lock of line 339: while (!t_queue->shutdown).
rt_while(w) ==
    /\ pc[w] = "rt_while"
    /\ mutex = w
    /\ rt_loop(w, mem, TRUE)
    /\ UNCHANGED <<fs, outside_task,
                   path_names, thread_amount, block_size, shutdown, permission,
                   mpc, current_pos, i_main, stdout, stderr, exit_status>>

\* A run_thread that dequeues after the wait without testing the queue again.
rt_wait_no_retest(w) ==
    /\ pc[w] = "rt_wait_loop"
    /\ mutex = w
    /\ LET d == dequeue(mem, task_q) IN
          /\ task_q' = d.queue
          /\ t_running' = t_running_inc(t_running)
          /\ mutex' = pthread_mutex_unlock(w)
          /\ pc' = [pc EXCEPT ![w] = "run_task"]
          /\ loc' = [loc EXCEPT ![w] = [NoLocals EXCEPT !.task = d.task]]
          /\ mem' = d.mem
          /\ hist' = [hist EXCEPT !.dequeued = @ (+) SetToBag({Original(d.task)})]
    /\ UNCHANGED <<fs, outside_task, cond,
                   path_names, thread_amount, block_size, shutdown, permission,
                   mpc, current_pos, i_main, stdout, stderr, exit_status>>

\* pthread_cond_wait has returned with the mutex: while (queue_is_empty(t_queue)).
rt_wait_loop(w) ==
    /\ pc[w] = "rt_wait_loop"
    /\ mutex = w
    /\ rt_loop(w, mem, FALSE)
    /\ UNCHANGED <<fs, outside_task,
                   path_names, thread_amount, block_size, shutdown, permission,
                   mpc, current_pos, i_main, stdout, stderr, exit_status>>

\* After the lock of line 354: kill_task(task), then the outer loop's test.
rt_kill_task(w) ==
    /\ pc[w] = "rt_kill_task"
    /\ mutex = w
    /\ rt_loop(w, kill_task(mem, loc[w].task), TRUE)
    /\ UNCHANGED <<fs, outside_task,
                   path_names, thread_amount, block_size, shutdown, permission,
                   mpc, current_pos, i_main, stdout, stderr, exit_status>>

-----------------------------------------------------------------------------
(* run_task and the task functions.                                        *)

\* run_task calls task->task_pointer(task, t_queue).
run_task(w) ==
    /\ pc[w] = "run_task"
    /\ pc' = [pc EXCEPT ![w] = loc[w].task.task_pointer]
    /\ mem' = use(mem, loc[w].task.ptr)
    /\ UNCHANGED <<fs, outside_task, hist,
                   path_names, thread_amount, task_q, mutex, cond, block_size,
                   t_running, shutdown, permission, loc, mpc, current_pos, i_main,
                   stdout, stderr, exit_status>>

shutdown_threads(w) ==
    /\ pc[w] = "shutdown_threads_locked"
    /\ mutex = w
    /\ shutdown' = TRUE
    /\ loc' = [loc EXCEPT ![w].task.path = NULL, ![w].temp_block_size = -1]
    /\ mem' = use(mem, loc[w].task.ptr)
    /\ mutex' = pthread_mutex_unlock(w)
    /\ pc' = [pc EXCEPT ![w] = "run_task_lock"]
    /\ UNCHANGED <<fs, outside_task, hist,
                   path_names, thread_amount, task_q, cond, block_size, t_running,
                   permission, mpc, current_pos, i_main, stdout, stderr, exit_status>>

\* get_block_size_mult up to its return, to the lock of line 177 or to the loop of
\* get_size_of_dir.
get_block_size_mult(w) ==
    LET absolute_path == loc[w].task.path
        absolute_path_buf == lstat(absolute_path)
        m == use(use(mem, loc[w].task.ptr), PathObj(absolute_path))
    IN  /\ pc[w] = "get_block_size_mult"
        /\ mem' = IF absolute_path_buf.check = 0 /\ S_ISDIR(absolute_path_buf)
                      /\ opendir(absolute_path)
                   THEN malloc(m, DirObj(absolute_path, w))
                   ELSE m
        /\ IF absolute_path_buf.check < 0
           THEN /\ loc' = [loc EXCEPT ![w].temp_block_size = 0]
                /\ pc' = [pc EXCEPT ![w] = "run_task_lock"]
                /\ UNCHANGED stderr
           ELSE IF S_ISDIR(absolute_path_buf)
           THEN IF ~opendir(absolute_path)
                THEN /\ stderr' = [stderr EXCEPT ![current_pos][absolute_path] = @ + 1]
                     /\ loc' = [loc EXCEPT ![w].st_blocks = absolute_path_buf.st_blocks]
                     /\ pc' = [pc EXCEPT ![w] = "gbsm_denied"]
                ELSE /\ loc' = [loc EXCEPT ![w].st_blocks = absolute_path_buf.st_blocks,
                                           ![w].block_size = 0, ![w].idx = 1]
                     /\ pc' = [pc EXCEPT ![w] = "get_size_of_dir"]
                     /\ UNCHANGED stderr
           ELSE /\ loc' = [loc EXCEPT ![w].temp_block_size = absolute_path_buf.st_blocks]
                /\ pc' = [pc EXCEPT ![w] = "run_task_lock"]
                /\ UNCHANGED stderr
        /\ UNCHANGED <<fs, outside_task, hist,
                       path_names, thread_amount, task_q, mutex, cond, block_size,
                       t_running, shutdown, permission, mpc, current_pos, i_main,
                       stdout, exit_status>>

\* A get_block_size_mult that returns 0 for a directory it could not open.
gbsm_denied_returns_zero(w) ==
    /\ pc[w] = "gbsm_denied_locked"
    /\ mutex = w
    /\ permission' = FALSE
    /\ mutex' = pthread_mutex_unlock(w)
    /\ loc' = [loc EXCEPT ![w].temp_block_size = 0]
    /\ pc' = [pc EXCEPT ![w] = "run_task_lock"]
    /\ UNCHANGED <<fs, outside_task, hist,
                   path_names, thread_amount, task_q, cond, block_size, t_running,
                   shutdown, mpc, current_pos, i_main, mem, stdout, stderr, exit_status>>

\* Lines 177-180: the directory could not be opened.
gbsm_denied(w) ==
    /\ pc[w] = "gbsm_denied_locked"
    /\ mutex = w
    /\ permission' = FALSE
    /\ mutex' = pthread_mutex_unlock(w)
    /\ loc' = [loc EXCEPT ![w].temp_block_size = loc[w].st_blocks]
    /\ pc' = [pc EXCEPT ![w] = "run_task_lock"]
    /\ UNCHANGED <<fs, outside_task, hist,
                   path_names, thread_amount, task_q, cond, block_size, t_running,
                   shutdown, mpc, current_pos, i_main, mem, stdout, stderr, exit_status>>

\* One round of the readdir loop of get_size_of_dir with multithread true; the round
\* in which readdir returns NULL, and the one that breaks, close the directory and
\* return to get_block_size_mult, which returns to run_task.
get_size_of_dir_mult(w) ==
    LET absolute_path == loc[w].task.path
        names == readdir(absolute_path)
    IN  /\ pc[w] = "get_size_of_dir"
        /\ IF loc[w].idx > Len(names)
           THEN /\ loc' = [loc EXCEPT ![w].temp_block_size = loc[w].block_size]
                /\ pc' = [pc EXCEPT ![w] = "run_task_lock"]
                /\ mem' = closedir(use(mem, PathObj(absolute_path)),
                                   DirObj(absolute_path, w))
           ELSE LET e == dir_entry(absolute_path, [st_blocks |-> loc[w].st_blocks],
                                   names[loc[w].idx])
                    m1 == malloc(use(mem, PathObj(absolute_path)), PathObj(e.path))
                IN  IF e.stop
                    THEN /\ loc' = [loc EXCEPT ![w].temp_block_size =
                                                   loc[w].block_size + e.add]
                         /\ pc' = [pc EXCEPT ![w] = "run_task_lock"]
                         /\ mem' = closedir(free(m1, PathObj(e.path)),
                                            DirObj(absolute_path, w))
                    ELSE IF e.subdir
                    THEN LET c == create_task(use(m1, loc[w].task.ptr), e.path,
                                              loc[w].task.task_pointer, 0)
                         IN  /\ loc' = [loc EXCEPT ![w].new_task = c.task,
                                                    ![w].ret = "get_size_of_dir"]
                             /\ pc' = [pc EXCEPT ![w] = "add_task"]
                             /\ mem' = c.mem
                    ELSE /\ loc' = [loc EXCEPT ![w].block_size = @ + e.add,
                                               ![w].idx = @ + 1]
                         /\ pc' = pc
                         /\ mem' = free(m1, PathObj(e.path))
        /\ UNCHANGED <<fs, outside_task, hist,
                       path_names, thread_amount, task_q, mutex, cond, block_size,
                       t_running, shutdown, permission, mpc, current_pos, i_main,
                       stdout, stderr, exit_status>>

\* add_task, holding the mutex: enqueue, signal, unlock, and the return to the caller.
add_task(w) ==
    /\ pc[w] = "add_task_locked"
    /\ mutex = w
    /\ task_q' = enqueue(task_q, loc[w].new_task)
    /\ hist' = [hist EXCEPT !.enqueued = @ (+) SetToBag({Original(loc[w].new_task)})]
    /\ \E woken \in Threads \cup {Main} :
          /\ pthread_cond_signal(woken)
          /\ pc' = [x \in Threads |->
                        IF x = w THEN loc[w].ret
                        ELSE IF x = woken THEN "woken" ELSE pc[x]]
    /\ mutex' = pthread_mutex_unlock(w)
    /\ loc' = [loc EXCEPT ![w].new_task = NoTask, ![w].ret = "none",
                          ![w].idx = IF loc[w].ret = "get_size_of_dir" THEN @ + 1 ELSE @,
                          ![w].i = IF loc[w].ret = "kill_task_initializer" THEN @ + 1 ELSE @]
    /\ UNCHANGED <<fs, outside_task, path_names, thread_amount, block_size, t_running, shutdown,
                   permission, mpc, current_pos, i_main, mem, stdout, stderr, exit_status>>

\* A run_task that adds what a kill task returns as well.
add_block_size_always(total, temp_block_size) == total + temp_block_size

\* Lines 377-379: what the task returned is added unless it is the -1 of a kill task.
add_block_size(total, temp_block_size) ==
    IF temp_block_size > -1 THEN total + temp_block_size ELSE total

\* run_task from line 376 to its unlock.
run_task_bookkeeping(w) ==
    /\ pc[w] = "run_task_locked"
    /\ mutex = w
    /\ block_size' = add_block_size(block_size, loc[w].temp_block_size)
    /\ t_running' = t_running - 1
    /\ loc' = [loc EXCEPT ![w].queue_empty = queue_is_empty(task_q),
                          ![w].t_running = t_running - 1, ![w].i = 0]
    /\ mutex' = pthread_mutex_unlock(w)
    /\ pc' = [pc EXCEPT ![w] = "kill_task_initializer"]
    /\ UNCHANGED <<fs, outside_task, hist,
                   path_names, thread_amount, task_q, cond, shutdown, permission,
                   mpc, current_pos, i_main, mem, stdout, stderr, exit_status>>

\* A kill_task_initializer that does not look at t_running.
kill_condition_queue_only(queue_empty, t_running_read, temp_block_size) ==
    queue_empty /\ (temp_block_size > -1)

\* A kill_task_initializer that expects t_running to still count the calling thread.
kill_condition_off_by_one(queue_empty, t_running_read, temp_block_size) ==
    queue_empty /\ (t_running_read = 1) /\ (temp_block_size > -1)

\* A kill_task_initializer that does not tell a kill task from a regular one.
kill_condition_any_task(queue_empty, t_running_read, temp_block_size) ==
    queue_empty /\ (t_running_read = 0)

\* The condition of kill_task_initializer on the values run_task read.
kill_condition(queue_empty, t_running_read, temp_block_size) ==
    queue_empty /\ (t_running_read = 0) /\ (temp_block_size > -1)

\* kill_task_initializer: one round of its loop up to the call of add_task, or its
\* return through run_task to line 354.
kill_task_initializer(w) ==
    /\ pc[w] = "kill_task_initializer"
    /\ IF /\ kill_condition(loc[w].queue_empty, loc[w].t_running, loc[w].temp_block_size)
          /\ loc[w].i < thread_amount
       THEN LET c == create_task(mem, NULL, "shutdown_threads", loc[w].i + 1) IN
            /\ loc' = [loc EXCEPT ![w].new_task = c.task,
                                  ![w].ret = "kill_task_initializer"]
            /\ pc' = [pc EXCEPT ![w] = "add_task"]
            /\ mem' = c.mem
            /\ hist' = [hist EXCEPT !.quiescent = IF loc[w].i = 0 THEN @ + 1 ELSE @]
       ELSE /\ pc' = [pc EXCEPT ![w] = "rt_relock"]
            /\ UNCHANGED <<loc, mem, hist>>
    /\ UNCHANGED <<fs, outside_task, path_names, thread_amount, task_q, mutex, cond, block_size,
                   t_running, shutdown, permission, mpc, current_pos, i_main, stdout,
                   stderr, exit_status>>

-----------------------------------------------------------------------------
(* The main thread: start_options_and_run, run_mult_thread and the end of  *)
(* main.                                                                   *)

\* The diagnostics of the recursive traversal of the target at pos, added to those
\* printed so far.
print_diagnostics(printed, pos, paths) ==
    [printed EXCEPT ![pos] =
        [d \in Dirs |-> @[d] + Cardinality({k \in 1..Len(paths) : paths[k] = d})]]

\* The heap after the opendir and closedir calls of a recursive traversal.
RECURSIVE dir_calls(_, _)
dir_calls(m, calls) ==
    IF calls = <<>> THEN m
    ELSE dir_calls(IF Head(calls).op = "opendir"
                   THEN malloc(m, DirObj(Head(calls).path, Main))
                   ELSE closedir(m, DirObj(Head(calls).path, Main)),
                   Tail(calls))

\* Line 85 with another target to run, and thread_amount > 1: run_mult_thread begins.
run_mult_thread(path) ==
    /\ mpc = "start_options_and_run"
    /\ ~(current_pos = list_end(path_names))
    /\ path = list_inspect(path_names, current_pos)
    /\ thread_amount > 1
    /\ mpc' = "pthread_create"
    /\ i_main' = 0
    /\ UNCHANGED <<fs, outside_task, hist,
                   path_names, thread_amount, task_q, mutex, cond, block_size,
                   t_running, shutdown, permission, pc, loc, current_pos, mem, stdout,
                   stderr, exit_status>>

\* Line 92: the recursive traversal of the target by the main thread.
run_single_thread(path) ==
    /\ mpc = "start_options_and_run"
    /\ ~(current_pos = list_end(path_names))
    /\ path = list_inspect(path_names, current_pos)
    /\ ~(thread_amount > 1)
    /\ LET r == get_block_size(path, permission) IN
          /\ block_size' = r.block_size
          /\ permission' = r.permission
          /\ stderr' = print_diagnostics(stderr, current_pos, r.stderr)
          /\ mem' = dir_calls(mem, r.dirs)
    /\ mpc' = "printf"
    /\ UNCHANGED <<fs, outside_task, hist,
                   path_names, thread_amount, task_q, mutex, cond, t_running,
                   shutdown, pc, loc, current_pos, i_main, stdout, exit_status>>

\* Lines 423-427: one thread is created.
pthread_create(w) ==
    /\ mpc = "pthread_create"
    /\ i_main < thread_amount
    /\ w = i_main + 1
    /\ pc' = [pc EXCEPT ![w] = "run_thread"]
    /\ i_main' = i_main + 1
    /\ UNCHANGED <<fs, outside_task, hist,
                   path_names, thread_amount, task_q, mutex, cond, block_size,
                   t_running, shutdown, permission, loc, mpc, current_pos, mem, stdout,
                   stderr, exit_status>>

\* The task run_mult_thread creates for the target.
start_task(path) ==
    [task_pointer |-> "get_block_size_mult", path |-> path, ptr |-> TaskObj(path, 0)]

\* Lines 430-434: the copy of the path and the start task are allocated.
create_start_task(path) ==
    /\ mpc = "pthread_create"
    /\ i_main = thread_amount
    /\ path = list_inspect(path_names, current_pos)
    /\ mem' = create_task(malloc(mem, PathObj(path)), path, "get_block_size_mult", 0).mem
    /\ mpc' = "add_task"
    /\ UNCHANGED <<fs, outside_task, hist,
                   path_names, thread_amount, task_q, mutex, cond, block_size,
                   t_running, shutdown, permission, pc, loc, current_pos, i_main, stdout,
                   stderr, exit_status>>

\* Line 435: the main thread blocks in the pthread_mutex_lock of add_task.
main_mutex_lock ==
    /\ mpc = "add_task"
    /\ mutex = Free
    /\ mutex' = Main
    /\ mpc' = "add_task_locked"
    /\ UNCHANGED <<fs, outside_task, hist,
                   path_names, thread_amount, task_q, cond, block_size, t_running,
                   shutdown, permission, pc, loc, current_pos, i_main, mem, stdout,
                   stderr, exit_status>>

\* Line 435: add_task by the main thread, holding the mutex.
main_add_task(path) ==
    /\ mpc = "add_task_locked"
    /\ mutex = Main
    /\ path = list_inspect(path_names, current_pos)
    /\ task_q' = enqueue(task_q, start_task(path))
    /\ hist' = [hist EXCEPT !.enqueued = @ (+) SetToBag({Original(start_task(path))})]
    /\ \E woken \in Threads \cup {Main} :
          /\ pthread_cond_signal(woken)
          /\ pc' = [x \in Threads |-> IF x = woken THEN "woken" ELSE pc[x]]
    /\ mutex' = Free
    /\ mpc' = "pthread_join"
    /\ i_main' = 0
    /\ UNCHANGED <<fs, outside_task, path_names, thread_amount, block_size, t_running, shutdown,
                   permission, loc, current_pos, mem, stdout, stderr, exit_status>>

\* A pthread_join that returns while the thread still runs.
pthread_join_early(w) ==
    /\ mpc = "pthread_join"
    /\ i_main < thread_amount
    /\ w = i_main + 1
    /\ i_main' = i_main + 1
    /\ mpc' = IF i_main + 1 = thread_amount THEN "printf" ELSE "pthread_join"
    /\ UNCHANGED <<fs, outside_task, hist,
                   path_names, thread_amount, task_q, mutex, cond, block_size,
                   t_running, shutdown, permission, pc, loc, current_pos, mem, stdout,
                   stderr, exit_status>>

\* Lines 438-442: one thread is joined; after the last, run_mult_thread returns.
pthread_join(w) ==
    /\ mpc = "pthread_join"
    /\ i_main < thread_amount
    /\ w = i_main + 1
    /\ pc[w] = "done"
    /\ pc' = [pc EXCEPT ![w] = "none"]
    /\ i_main' = i_main + 1
    /\ mpc' = IF i_main + 1 = thread_amount THEN "printf" ELSE "pthread_join"
    /\ UNCHANGED <<fs, outside_task, hist,
                   path_names, thread_amount, task_q, mutex, cond, block_size,
                   t_running, shutdown, permission, loc, current_pos, mem, stdout,
                   stderr, exit_status>>

\* Line 94.
printf(path) ==
    /\ mpc = "printf"
    /\ path = list_inspect(path_names, current_pos)
    /\ stdout' = Append(stdout, [block_size |-> block_size, path |-> path])
    /\ mpc' = "reset"
    /\ UNCHANGED <<fs, outside_task, hist,
                   path_names, thread_amount, task_q, mutex, cond, block_size,
                   t_running, shutdown, permission, pc, loc, current_pos, i_main, mem,
                   stderr, exit_status>>

\* A reset that sets the permission flag again.
reset_values_permission == [block_size |-> 0, t_running |-> 0, shutdown |-> FALSE,
                            permission |-> TRUE]

\* A reset that leaves the accumulated blocks.
reset_values_keep_blocks == [block_size |-> block_size, t_running |-> 0,
                             shutdown |-> FALSE, permission |-> permission]

\* The values lines 97-99 leave in block_size, t_running, shutdown and permission.
reset_values == [block_size |-> 0, t_running |-> 0, shutdown |-> FALSE,
                 permission |-> permission]

\* A start_options_and_run that does not drain the queue after a target.
reset_no_drain ==
    /\ mpc = "reset"
    /\ block_size' = reset_values.block_size
    /\ t_running' = reset_values.t_running
    /\ shutdown' = reset_values.shutdown
    /\ permission' = reset_values.permission
    /\ hist' = NoHistory
    /\ current_pos' = list_next(path_names, current_pos)
    /\ mpc' = "start_options_and_run"
    /\ UNCHANGED <<fs, outside_task, mem, task_q,
                   path_names, thread_amount, mutex, cond, pc, loc, i_main, stdout,
                   stderr, exit_status>>

\* Lines 97-105: the variables are reset, the queue is cleared, the next target is taken.
reset ==
    /\ mpc = "reset"
    /\ block_size' = reset_values.block_size
    /\ t_running' = reset_values.t_running
    /\ shutdown' = reset_values.shutdown
    /\ permission' = reset_values.permission
    /\ hist' = NoHistory
    /\ mem' = clear_queue(mem, task_q)
    /\ task_q' = <<>>
    /\ current_pos' = list_next(path_names, current_pos)
    /\ mpc' = "start_options_and_run"
    /\ UNCHANGED <<fs, outside_task,
                   path_names, thread_amount, mutex, cond, pc, loc, i_main, stdout,
                   stderr, exit_status>>

\* The status main exits with, given the permission it read.
exit_code(perm) == IF perm THEN "EXIT_SUCCESS" ELSE "EXIT_FAILURE"

\* Line 85 at the end of the list, then lines 65-69 of main.
main_exit ==
    /\ mpc = "start_options_and_run"
    /\ current_pos = list_end(path_names)
    /\ mem' = clear_queue(mem, task_q)
    /\ task_q' = <<>>
    /\ exit_status' = exit_code(permission)
    /\ mpc' = "exit"
    /\ UNCHANGED <<fs, outside_task, hist,
                   path_names, thread_amount, mutex, cond, block_size, t_running,
                   shutdown, permission, pc, loc, current_pos, i_main, stdout, stderr>>

-----------------------------------------------------------------------------

Worker(w) ==
    \/ pthread_mutex_lock(w)
    \/ rt_while(w)
    \/ rt_wait_loop(w)
    \/ rt_kill_task(w)
    \/ run_task(w)
    \/ shutdown_threads(w)
    \/ get_block_size_mult(w)
    \/ gbsm_denied(w)
    \/ get_size_of_dir_mult(w)
    \/ add_task(w)
    \/ run_task_bookkeeping(w)
    \/ kill_task_initializer(w)

\* The steps of the main thread other than the recursive traversal.
MainPooled ==
    \/ \E path \in Targets : run_mult_thread(path)
    \/ \E w \in Threads : pthread_create(w)
    \/ \E path \in Targets : create_start_task(path)
    \/ main_mutex_lock
    \/ \E path \in Targets : main_add_task(path)
    \/ \E w \in Threads : pthread_join(w)
    \/ \E path \in Targets : printf(path)
    \/ reset
    \/ main_exit

MainThread ==
    \/ MainPooled
    \/ \E path \in Targets : run_single_thread(path)

Next ==
    \/ \E w \in Threads : Worker(w)
    \/ \E w \in Threads : spurious_wakeup(w)
    \/ MainThread

Spec == Init /\ [][Next]_vars

\* Fair scheduling of a pooled run: a thread that can take a step again and again
\* takes one, and a thread blocked on the mutex gets it if it is released again and
\* again. No wait is required to return spuriously.
Fairness ==
    /\ \A w \in Threads : SF_vars(Worker(w))
    /\ SF_vars(MainPooled)

\* The runs of the one root target "r" in which no lstat call fails.
InitOneRoot ==
    /\ Init
    /\ path_names = << <<"r">> >>
    /\ fs.stat_fail = {}
    /\ fs.open_fail \in {{}, {<<"r", "d">>}}

FairSpec == InitOneRoot /\ [][Next]_vars /\ Fairness

-----------------------------------------------------------------------------
(* error_handler.c, and the runs in which a pthread call reports a         *)
(* failure. A pthread function returns 0, or an error number on failure.   *)

EAGAIN == 11
EINVAL == 22
ESRCH == 3

\* error_handler_value: TRUE when it calls error_message_handler, which prints the
\* message and calls exit(EXIT_FAILURE).
error_handler_value(check_against_value, value) == value < check_against_value

\* exit(EXIT_FAILURE) in error_message_handler.
error_message_handler ==
    /\ mpc' = "exit"
    /\ exit_status' = "EXIT_FAILURE"

\* add_task by a worker when pthread_cond_signal returns EINVAL: no thread is woken.
add_task_signal_fails(w) ==
    /\ pc[w] = "add_task_locked"
    /\ mutex = w
    /\ task_q' = enqueue(task_q, loc[w].new_task)
    /\ hist' = [hist EXCEPT !.enqueued = @ (+) SetToBag({Original(loc[w].new_task)}),
                            !.failed = @ \cup {"pthread_cond_signal"}]
    /\ LET check_signal == EINVAL IN
          IF error_handler_value(0, check_signal)
          THEN /\ error_message_handler
               /\ UNCHANGED <<pc, mutex, loc>>
          ELSE /\ pc' = [pc EXCEPT ![w] = loc[w].ret]
               /\ mutex' = pthread_mutex_unlock(w)
               /\ loc' = [loc EXCEPT
                              ![w].new_task = NoTask, ![w].ret = "none",
                              ![w].idx = IF loc[w].ret = "get_size_of_dir" THEN @ + 1 ELSE @,
                              ![w].i = IF loc[w].ret = "kill_task_initializer"
                                       THEN @ + 1 ELSE @]
               /\ UNCHANGED <<mpc, exit_status>>
    /\ UNCHANGED <<fs, outside_task, path_names, thread_amount, cond, block_size,
                   t_running, shutdown, permission, current_pos, i_main, mem, stdout,
                   stderr>>

\* add_task by the main thread when pthread_cond_signal returns EINVAL.
main_add_task_signal_fails(path) ==
    /\ mpc = "add_task_locked"
    /\ mutex = Main
    /\ path = list_inspect(path_names, current_pos)
    /\ task_q' = enqueue(task_q, start_task(path))
    /\ hist' = [hist EXCEPT !.enqueued = @ (+) SetToBag({Original(start_task(path))}),
                            !.failed = @ \cup {"pthread_cond_signal"}]
    /\ LET check_signal == EINVAL IN
          IF error_handler_value(0, check_signal)
          THEN /\ error_message_handler
               /\ UNCHANGED <<mutex, i_main>>
          ELSE /\ mutex' = Free
               /\ mpc' = "pthread_join"
               /\ i_main' = 0
               /\ UNCHANGED exit_status
    /\ UNCHANGED <<fs, outside_task, path_names, thread_amount, cond, block_size,
                   t_running, shutdown, permission, pc, loc, current_pos, mem, stdout,
                   stderr>>

\* Line 345 when pthread_cond_wait returns EINVAL: it returns at once, the thread
\* still holds the mutex, and the inner loop tests the queue again.
cond_wait_fails(w) ==
    /\ pc[w] \in {"rt_while", "rt_wait_loop", "rt_kill_task"}
    /\ mutex = w
    /\ ~(pc[w] # "rt_wait_loop" /\ shutdown)
    /\ queue_is_empty(task_q)
    /\ hist' = [hist EXCEPT !.failed = @ \cup {"pthread_cond_wait"}]
    /\ mem' = IF pc[w] = "rt_kill_task" THEN kill_task(mem, loc[w].task) ELSE mem
    /\ LET check_wait == EINVAL IN
          IF error_handler_value(0, check_wait)
          THEN /\ error_message_handler
               /\ UNCHANGED <<pc, loc>>
          ELSE /\ pc' = [pc EXCEPT ![w] = "rt_wait_loop"]
               /\ loc' = [loc EXCEPT ![w] = NoLocals]
               /\ UNCHANGED <<mpc, exit_status>>
    /\ UNCHANGED <<fs, outside_task, path_names, thread_amount, task_q, mutex, cond,
                   block_size, t_running, shutdown, permission, current_pos, i_main,
                   stdout, stderr>>

\* Lines 423-427 when pthread_create returns EAGAIN: no thread is created and
\* threads[i] is left undefined.
pthread_create_fails(w) ==
    /\ mpc = "pthread_create"
    /\ i_main < thread_amount
    /\ w = i_main + 1
    /\ hist' = [hist EXCEPT !.failed = @ \cup {"pthread_create"}]
    /\ LET pthread_create_check == EAGAIN IN
          IF error_handler_value(0, pthread_create_check)
          THEN /\ error_message_handler
               /\ UNCHANGED i_main
          ELSE /\ i_main' = i_main + 1
               /\ UNCHANGED <<mpc, exit_status>>
    /\ UNCHANGED <<fs, outside_task, path_names, thread_amount, task_q, mutex, cond,
                   block_size, t_running, shutdown, permission, pc, loc, current_pos,
                   mem, stdout, stderr>>

\* Lines 438-442 for a thread that was never created: pthread_join of an undefined
\* threads[i] either returns ESRCH or ends the process, its threads too, with a signal.
pthread_join_fails(w) ==
    /\ mpc = "pthread_join"
    /\ i_main < thread_amount
    /\ w = i_main + 1
    /\ pc[w] = "none"
    /\ hist' = [hist EXCEPT !.failed = @ \cup {"pthread_join"}]
    /\ \E outcome \in {"ESRCH", "SIGSEGV"} :
          IF outcome = "SIGSEGV"
          THEN /\ mpc' = "exit"
               /\ exit_status' = "SIGSEGV"
               /\ pc' = [x \in Threads |-> "none"]
               /\ UNCHANGED i_main
          ELSE LET pthread_join_check == ESRCH IN
               IF error_handler_value(0, pthread_join_check)
               THEN /\ error_message_handler
                    /\ UNCHANGED <<i_main, pc>>
               ELSE /\ i_main' = i_main + 1
                    /\ mpc' = IF i_main + 1 = thread_amount THEN "printf"
                               ELSE "pthread_join"
                    /\ UNCHANGED <<exit_status, pc>>
    /\ UNCHANGED <<fs, outside_task, path_names, thread_amount, task_q, mutex, cond,
                   block_size, t_running, shutdown, permission, loc, current_pos,
                   mem, stdout, stderr>>

\* The pooled runs of the one root target "r" in which no lstat call fails.
FaultInit ==
    /\ Init
    /\ path_names = << <<"r">> >>
    /\ thread_amount = MaxThreads
    /\ fs.stat_fail = {}
    /\ fs.open_fail \in {{}, {<<"r", "d">>}}

\* The steps of a pooled run, those in which a pthread call fails included.
FaultNext ==
    \/ \E w \in Threads : Worker(w)
    \/ \E w \in Threads : spurious_wakeup(w)
    \/ MainPooled
    \/ \E w \in Threads : add_task_signal_fails(w)
    \/ \E path \in Targets : main_add_task_signal_fails(path)
    \/ \E w \in Threads : cond_wait_fails(w)
    \/ \E w \in Threads : pthread_create_fails(w)
    \/ \E w \in Threads : pthread_join_fails(w)

FaultSpec == FaultInit /\ [][FaultNext]_vars

-----------------------------------------------------------------------------
(* The interface of t_queue.c called as t_queue_test.c calls it, in any    *)
(* order: create_task and enqueue, dequeue into outside_task, kill_task of *)
(* outside_task, and destroy_queue at the end.                             *)

\* The functions the tasks of the calls point to.
TestFunctions == {"eksde", "get_block_size_mult"}

\* The buffer allocated for the path of the k-th task.
temp_path(k) == <<"eksde", ToString(k)>>

\* Line 18.
QueueInit ==
    /\ fs = [stat_fail |-> {}, open_fail |-> {}]
    /\ thread_amount = MaxThreads
    /\ path_names = <<>>
    /\ create_task_queue
    /\ pc = [w \in Threads |-> "none"]
    /\ loc = [w \in Threads |-> NoLocals]
    /\ mpc = "t_queue_test"
    /\ current_pos = 0
    /\ i_main = 0
    /\ mem = [live |-> {}, fault |-> "none"]
    /\ stdout = <<>>
    /\ stderr = NoDiagnostics
    /\ exit_status = "running"
    /\ hist = NoHistory
    /\ outside_task = Unassigned

\* Lines 21-24 (and 29-32): a path is allocated, a task is created and enqueued.
test_enqueue(task_pointer) ==
    /\ mpc = "t_queue_test"
    /\ i_main < MaxTasks
    /\ LET path == temp_path(i_main + 1)
           c == create_task(malloc(mem, PathObj(path)), path, task_pointer, i_main + 1)
       IN  /\ task_q' = enqueue(task_q, c.task)
           /\ mem' = c.mem
    /\ i_main' = i_main + 1
    /\ UNCHANGED <<fs, outside_task, hist,
                   path_names, thread_amount, mutex, cond, block_size, t_running,
                   shutdown, permission, pc, loc, mpc, current_pos, stdout, stderr,
                   exit_status>>

\* Line 26: outside_task = dequeue(queue), on an empty queue too.
test_dequeue ==
    /\ mpc = "t_queue_test"
    /\ outside_task = Unassigned
    /\ LET d == dequeue(mem, task_q) IN
          /\ outside_task' = d.task
          /\ task_q' = d.queue
          /\ mem' = d.mem
    /\ UNCHANGED <<fs, hist,
                   path_names, thread_amount, mutex, cond, block_size, t_running,
                   shutdown, permission, pc, loc, mpc, current_pos, i_main, stdout,
                   stderr, exit_status>>

\* Line 34: kill_task(outside_task).
test_kill_task ==
    /\ mpc = "t_queue_test"
    /\ outside_task # Unassigned
    /\ mem' = kill_task(mem, outside_task)
    /\ outside_task' = Unassigned
    /\ UNCHANGED <<fs, hist,
                   path_names, thread_amount, task_q, mutex, cond, block_size, t_running,
                   shutdown, permission, pc, loc, mpc, current_pos, i_main, stdout,
                   stderr, exit_status>>

\* Lines 35-36: destroy_queue(queue) and the return.
test_destroy_queue ==
    /\ mpc = "t_queue_test"
    /\ outside_task = Unassigned
    /\ mem' = clear_queue(mem, task_q)
    /\ task_q' = <<>>
    /\ mpc' = "exit"
    /\ exit_status' = exit_code(TRUE)
    /\ UNCHANGED <<fs, outside_task, hist,
                   path_names, thread_amount, mutex, cond, block_size, t_running,
                   shutdown, permission, pc, loc, current_pos, i_main, stdout, stderr>>

QueueNext ==
    \/ \E task_pointer \in TestFunctions : test_enqueue(task_pointer)
    \/ test_dequeue
    \/ test_kill_task
    \/ test_destroy_queue

QueueSpec == QueueInit /\ [][QueueNext]_vars

-----------------------------------------------------------------------------
(* Definitions the properties share.                                       *)

Pooled == thread_amount > 1

IsWork(task) == task.task_pointer = "get_block_size_mult"
IsSentinel(task) == task.task_pointer = "shutdown_threads"

\* The main thread has joined every worker of the current target and not yet printed.
Joined == Pooled /\ mpc = "printf"

\* The entries of a directory other than "." and "..".
Children(dir) ==
    {make_path(readdir(dir)[k], dir) : k \in {j \in 1..Len(readdir(dir)) :
                                               readdir(dir)[j] \notin {".", ".."}}}

\* The entries reachable from a root: the root, and the entries of every reachable
\* directory that can be opened.
RECURSIVE Reachable(_)
Reachable(p) ==
    IF p \in Dirs /\ p \notin fs.open_fail
    THEN {p} \cup UNION {Reachable(c) : c \in Children(p)}
    ELSE {p}

RECURSIVE SumBlocks(_)
SumBlocks(entries) ==
    IF entries = {} THEN 0
    ELSE LET e == CHOOSE x \in entries : TRUE IN St_blocks[e] + SumBlocks(entries \ {e})

-----------------------------------------------------------------------------
(* The claims.                                                             *)

\* The permission flag the recursive traversal leaves after the first k targets.
RECURSIVE RecursivePermission(_)
RecursivePermission(k) ==
    IF k = 0 THEN TRUE
    ELSE get_block_size(path_names[k], RecursivePermission(k - 1)).permission

\* C1: when the main thread has joined the workers of a pooled run, under every
\* interleaving, block_size is the total the recursive traversal returns for the same
\* target, and permission is the value the recursive traversal would have left.
C1_PooledEqualsRecursive ==
    Joined =>
        /\ block_size = get_block_size(path_names[current_pos], TRUE).block_size
        /\ permission = RecursivePermission(current_pos)

C1_Witness ==
    /\ Joined
    /\ path_names[current_pos] = <<"r">>
    /\ fs = [stat_fail |-> {}, open_fail |-> {<<"r", "u">>}]
    /\ block_size = 63
    /\ ~permission

\* C2: when every status call succeeds, the total printed for a root is the sum of
\* the block counts of the entries reachable from it, each counted once (the
\* directory itself through ".", nothing for "..", a root that is no directory
\* by its own block count).
C2_TotalIsSumOfReachable ==
    fs.stat_fail = {} =>
        \A k \in 1..Len(stdout) :
            stdout[k].block_size = SumBlocks(Reachable(path_names[k]))

C2_Witness ==
    /\ fs.stat_fail = {}
    /\ Pooled
    /\ Len(stdout) = 2
    /\ stdout[1] = [block_size |-> 63, path |-> <<"r">>]
    /\ stdout[2] = [block_size |-> 2, path |-> <<"r", "a">>]

\* C3: under fair scheduling, once the main thread has submitted the start task of
\* a pooled run, every worker leaves its loop and the joins of all the threads
\* return; in particular no worker stays blocked in the condition wait.
C3_PooledRunTerminates ==
    (Pooled /\ mpc = "pthread_join") ~> (mpc = "printf" /\ \A w \in Threads : pc[w] = "none")

C3_Witness ==
    /\ Joined
    /\ path_names = <<(<<"r">>)>>
    /\ fs.stat_fail = {}
    /\ block_size = 63
    /\ \A w \in Threads : pc[w] = "none"

\* A worker is between the dequeue of a task and the bookkeeping of run_task.
Executing(w) ==
    \/ pc[w] \in {"run_task", "get_block_size_mult", "shutdown_threads",
                  "shutdown_threads_locked", "gbsm_denied", "gbsm_denied_locked",
                  "get_size_of_dir", "run_task_lock", "run_task_locked"}
    \/ pc[w] \in {"add_task", "add_task_locked"} /\ loc[w].ret = "get_size_of_dir"

\* A kill task exists or has been run: one is about to be enqueued, is in the queue,
\* is held by a worker, or the shutdown flag is set.
SentinelInjected ==
    \/ shutdown
    \/ \E k \in 1..Len(task_q) : IsSentinel(task_q[k])
    \/ \E w \in Threads : IsSentinel(loc[w].task) \/ IsSentinel(loc[w].new_task)

\* C4: from the moment a kill task is created on, for the rest of the run of the
\* target, the queue holds no regular task and no worker is executing one.
C4_NoPrematureShutdown ==
    SentinelInjected =>
        /\ \A k \in 1..Len(task_q) : ~IsWork(task_q[k])
        /\ \A w \in Threads : ~(Executing(w) /\ IsWork(loc[w].task))

C4_Witness ==
    /\ ~shutdown
    /\ Len(task_q) = thread_amount
    /\ \A k \in 1..Len(task_q) : IsSentinel(task_q[k])
    /\ stdout = <<[block_size |-> 63, path |-> <<"r">>]>>

\* C5 as claimed: when the main thread has joined all the workers, the queue is
\* empty and t_running is zero.
C5_QueueEmptyAtJoin ==
    Joined => task_q = <<>> /\ t_running = 0

\* C5 as amended: when the main thread has joined all the workers, t_running is zero
\* and the queue holds no regular task: it holds only kill tasks no worker took, fewer
\* than thread_amount of them.
C5_OnlySentinelsLeftAtJoin ==
    Joined =>
        /\ t_running = 0
        /\ \A k \in 1..Len(task_q) : IsSentinel(task_q[k])
        /\ Len(task_q) < thread_amount

C5_Witness ==
    /\ Joined
    /\ Len(task_q) = 1
    /\ IsSentinel(task_q[1])
    /\ t_running = 0

\* The diagnostics printed for the directory d while the k-th target was processed.
Diagnostics(k, d) == stderr[k][d]

\* C6: the process exits with success exactly when no directory open failed while any
\* of the targets was processed; a failure under an earlier target is not forgotten
\* when the later targets succeed.
C6_ExitSuccessIffNoOpenFailure ==
    mpc = "exit" =>
        (exit_status = "EXIT_SUCCESS" <=>
            \A k \in 1..Len(path_names) : \A d \in Dirs : Diagnostics(k, d) = 0)

C6_Witness ==
    /\ mpc = "exit"
    /\ exit_status = "EXIT_FAILURE"
    /\ path_names = << <<"r", "d">>, <<"r", "a">> >>
    /\ Diagnostics(1, <<"r", "d">>) = 1
    /\ \A d \in Dirs : Diagnostics(2, d) = 0

\* The tree of a root: the entries under it, when the root itself exists.
InTree(d, root) ==
    /\ lstat(root).check = 0
    /\ Len(d) >= Len(root)
    /\ SubSeq(d, 1, Len(root)) = root

\* C7: for every tree, in the pooled and in the recursive traversal, one diagnostic
\* is printed for each directory of the tree that cannot be opened and none for any
\* other, and the exit status is failure exactly when a diagnostic was printed.
C7_OneDiagnosticPerUnreadableDir ==
    mpc = "exit" =>
        /\ \A k \in 1..Len(path_names) : \A d \in Dirs :
              Diagnostics(k, d) = IF d \in fs.open_fail /\ InTree(d, path_names[k])
                                  THEN 1 ELSE 0
        /\ exit_status = "EXIT_FAILURE" <=>
              \E k \in 1..Len(path_names) : \E d \in Dirs : Diagnostics(k, d) > 0

\* C8: the step between two targets sets block_size to 0, t_running to 0 and shutdown
\* to false and leaves permission as it is, and so every total printed is the total
\* of its own target, whatever was printed before it.
C8_ResetBetweenRoots ==
    /\ [][mpc = "reset" =>
            /\ block_size' = 0
            /\ t_running' = 0
            /\ shutdown' = FALSE
            /\ permission' = permission]_vars
    /\ [](\A k \in 1..Len(stdout) :
            stdout[k].block_size = get_block_size(path_names[k], TRUE).block_size)

C8_Witness ==
    /\ mpc = "start_options_and_run"
    /\ Pooled
    /\ current_pos = 2
    /\ stdout = <<[block_size |-> 63, path |-> <<"r">>]>>
    /\ block_size = 0
    /\ t_running = 0
    /\ ~shutdown
    /\ ~permission

\* The number of targets whose run is over: their summary line is due.
Printed ==
    IF current_pos = list_end(path_names) THEN Len(path_names)
    ELSE IF mpc = "reset" THEN current_pos ELSE current_pos - 1

\* C9: one summary line is printed for each target, in the order of the targets; the
\* line of a target is printed when all its threads have been joined and before a
\* thread of the next target is created, and it carries the final total.
C9_OneLinePerRootInOrder ==
    /\ Len(stdout) = Printed
    /\ \A k \in 1..Len(stdout) : stdout[k].path = path_names[k]
    /\ mpc \in {"printf", "reset"} => \A w \in Threads : pc[w] = "none"
    /\ (\E w \in Threads : pc[w] # "none") => Len(stdout) = current_pos - 1
    /\ mpc = "reset" => stdout[Len(stdout)].block_size = block_size
    /\ mpc = "exit" => Len(stdout) = Len(path_names)

C9_Witness ==
    /\ mpc = "exit"
    /\ Pooled
    /\ Len(stdout) = 2
    /\ stdout[1].path = <<"r", "d">>
    /\ stdout[2].path = <<"r">>
    /\ stdout[2].block_size = 63

InVisit(w) ==
    \/ pc[w] = "get_size_of_dir"
    \/ pc[w] \in {"add_task", "add_task_locked"} /\ loc[w].ret = "get_size_of_dir"

\* C11: a directory handle is open exactly while the thread that opened it is inside
\* the visit of that directory, and no handle is closed twice: every exit of the
\* visit, the one after a failed status call of a child included, closes it once.
C11_DirClosedExactlyOnce ==
    /\ mem.fault = "none"
    /\ {obj \in mem.live : obj.kind = "DIR"} =
           {DirObj(loc[w].task.path, w) : w \in {x \in Threads : InVisit(x)}}

C11_Witness ==
    /\ fs.stat_fail = {<<"r", "d", "f">>}
    /\ \E w \in Threads :
          /\ pc[w] = "run_task_lock"
          /\ loc[w].task.path = <<"r", "d">>
          /\ loc[w].temp_block_size = 8
          /\ DirObj(<<"r", "d">>, w) \notin mem.live
    /\ \E w \in Threads : InVisit(w) /\ DirObj(<<"r">>, w) \in mem.live

\* A call of dequeue by t_queue_test returns in this step.
DequeueReturns == outside_task = Unassigned /\ outside_task' # Unassigned

\* C12: the queue is first in, first out: whatever the sequence of enqueue and dequeue
\* calls, the task dequeue returns is the one enqueued before all the others that are
\* in the queue (the tasks are numbered in the order of their enqueue).
C12_DequeueReturnsEarliest ==
    [][(DequeueReturns /\ ~queue_is_empty(task_q)) =>
          \A k \in 1..Len(task_q) : outside_task'.ptr.n <= task_q[k].ptr.n]_vars

\* C14: a dequeue on an empty queue returns NULL and leaves the queue empty; a dequeue
\* on a queue that is not empty removes one task from it and returns a task with the
\* path and the function of the task removed.
C14_DequeueResult ==
    [][DequeueReturns =>
          IF queue_is_empty(task_q)
          THEN outside_task' = NoTask /\ queue_is_empty(task_q')
          ELSE \E k \in 1..Len(task_q) :
                  /\ task_q' = list_remove(task_q, k)
                  /\ outside_task'.path = task_q[k].path
                  /\ outside_task'.task_pointer = task_q[k].task_pointer]_vars

C14_Witness ==
    /\ mpc = "t_queue_test"
    /\ i_main = 3
    /\ outside_task = NoTask
    /\ queue_is_empty(task_q)
    /\ mem = [live |-> {}, fault |-> "none"]

\* The targets of the command line are the entries of the directory dir, each given once.
SplitOf(dir) ==
    /\ Len(path_names) = Cardinality(Children(dir))
    /\ {path_names[k] : k \in 1..Len(path_names)} = Children(dir)

\* The sum of the totals of the summary lines printed.
RECURSIVE SumTotals(_)
SumTotals(lines) ==
    IF lines = <<>> THEN 0 ELSE Head(lines).block_size + SumTotals(Tail(lines))

\* C13 as claimed: when the entries of a directory are given as k separate targets,
\* the k totals printed add up to the total of the directory less k-1 times the
\* directory's own block count.
C13_SplitLessKMinusOneRoots ==
    mpc = "exit" =>
        \A dir \in Dirs :
            SplitOf(dir) =>
                SumTotals(stdout) = get_block_size(dir, TRUE).block_size
                                        - (Len(path_names) - 1) * St_blocks[dir]

\* C13 as amended: when every status call succeeds, a directory can be opened and its
\* entries are given as k separate targets, the k totals printed add up to the total
\* of the directory less the directory's own block count, once, whatever k is.
C13_SplitLessOneRoot ==
    (mpc = "exit" /\ fs.stat_fail = {}) =>
        \A dir \in Dirs \ fs.open_fail :
            SplitOf(dir) =>
                SumTotals(stdout) = get_block_size(dir, TRUE).block_size - St_blocks[dir]

C13_Witness ==
    /\ mpc = "exit"
    /\ fs.stat_fail = {}
    /\ fs.open_fail = {}
    /\ Pooled
    /\ SplitOf(<<"r">>)
    /\ Len(stdout) = 3
    /\ SumTotals(stdout) = 62

-----------------------------------------------------------------------------
(* The life cycle of a root run.                                           *)

\* The number of kill tasks enqueued since the run of the current target began.
SentinelsEnqueued ==
    BagCardinality([t \in {x \in BagToSet(hist.enqueued) : x.path = NULL} |->
                        hist.enqueued[t]])

\* The number of regular tasks enqueued since the run of the current target began.
WorkEnqueued == BagCardinality(hist.enqueued) - SentinelsEnqueued

\* C15: in a pooled run the condition of kill_task_initializer is found true at most
\* once, and only after the start task was enqueued; kill tasks are enqueued only
\* after that, never more than thread_amount of them; and when the main thread has
\* joined every worker the condition was found true exactly once and exactly
\* thread_amount kill tasks were enqueued.
C15_OneQuiescenceNSentinels ==
    Pooled =>
        /\ hist.quiescent \in {0, 1}
        /\ SentinelsEnqueued <= thread_amount
        /\ hist.quiescent = 0 => SentinelsEnqueued = 0
        /\ hist.quiescent = 1 => WorkEnqueued >= 1
        /\ Joined => hist.quiescent = 1 /\ SentinelsEnqueued = thread_amount

C15_Witness ==
    /\ Joined
    /\ hist.quiescent = 1
    /\ SentinelsEnqueued = thread_amount
    /\ WorkEnqueued = 2

-----------------------------------------------------------------------------
(* The injection of the kill tasks and the mutex.                          *)

\* Worker w has found the condition of kill_task_initializer true and has not yet
\* enqueued the last kill task.
Injecting(w) ==
    \/ /\ pc[w] = "kill_task_initializer"
       /\ kill_condition(loc[w].queue_empty, loc[w].t_running, loc[w].temp_block_size)
       /\ loc[w].i < thread_amount
    \/ pc[w] \in {"add_task", "add_task_locked"} /\ loc[w].ret = "kill_task_initializer"

\* C16 as claimed: from the moment a worker has found the condition true until it has
\* enqueued the last kill task, it holds the mutex.
C16_InjectionUnderMutex ==
    \A w \in Threads : Injecting(w) => mutex = w

\* C16 as amended: the queue and t_running are read while the worker holds the mutex;
\* from then until the last kill task is enqueued the worker holds the mutex only
\* inside add_task, and meanwhile the queue holds kill tasks only, any other worker
\* that executes a task executes a kill task, and the accumulated blocks and the
\* permission flag do not change.
C16_SnapshotUnderMutex ==
    [][\A w \in Threads :
          /\ (pc[w] = "run_task_locked" /\ pc'[w] = "kill_task_initializer") =>
                 /\ mutex = w
                 /\ loc'[w].queue_empty = queue_is_empty(task_q')
                 /\ loc'[w].t_running = t_running'
          /\ Injecting(w) =>
                 /\ mutex = w <=> pc[w] = "add_task_locked"
                 /\ \A k \in 1..Len(task_q) : IsSentinel(task_q[k])
                 /\ \A x \in Threads \ {w} : Executing(x) => IsSentinel(loc[x].task)
                 /\ Injecting(w)' => block_size' = block_size /\ permission' = permission
      ]_vars

\* A worker is between its first and its second kill task while another worker has
\* already run the first one.
C16_Witness ==
    \E w \in Threads :
        /\ Injecting(w)
        /\ loc[w].i = 1
        /\ mutex # w
        /\ shutdown

-----------------------------------------------------------------------------
(* The counter of running threads.                                         *)

\* C17 as claimed: t_running is between 0 and thread_amount and is the number of
\* workers that have dequeued a regular task and not yet done the bookkeeping of
\* run_task for it.
C17_CountsWorkTasksOnly ==
    /\ t_running \in 0..thread_amount
    /\ t_running = Cardinality({w \in Threads : Executing(w) /\ IsWork(loc[w].task)})

\* C17 as amended: t_running is between 0 and thread_amount and is the number of
\* workers that have dequeued a task, regular or kill task, and not yet done the
\* bookkeeping of run_task for it.
C17_CountsEveryTask ==
    /\ t_running \in 0..thread_amount
    /\ t_running = Cardinality({w \in Threads : Executing(w)})

\* Every worker executes a kill task at once, and each is counted.
C17_Witness ==
    /\ Pooled
    /\ t_running = thread_amount
    /\ \A w \in 1..thread_amount : Executing(w) /\ IsSentinel(loc[w].task)

-----------------------------------------------------------------------------
(* Each task is consumed once.                                             *)

\* C18 as claimed: when the main thread has joined every worker of a pooled run,
\* every task that was enqueued has been dequeued by a worker, once.
C18_EveryTaskDequeuedOnce ==
    Joined => \A t \in BagToSet(hist.enqueued) : CopiesIn(t, hist.dequeued) = 1

\* C18 as amended: in a pooled run no task is enqueued twice, so a path gets one task; a task
\* is dequeued at most once, and only after it was enqueued; no two workers hold the
\* same task; and when the main thread has joined every worker, every regular task
\* enqueued has been dequeued, by one worker, once; a kill task may never be dequeued.
C18_EachTaskConsumedOnce ==
    Pooled =>
        /\ \A t \in BagToSet(hist.enqueued) : CopiesIn(t, hist.enqueued) = 1
        /\ \A t \in BagToSet(hist.dequeued) :
               CopiesIn(t, hist.dequeued) = 1 /\ BagIn(t, hist.enqueued)
        /\ \A w, x \in Threads :
               (w # x /\ loc[w].task # NoTask /\ loc[x].task # NoTask) =>
                   loc[w].task.ptr # loc[x].task.ptr
        /\ Joined =>
               \A t \in BagToSet(hist.enqueued) : t.path # NULL => BagIn(t, hist.dequeued)

\* Two regular tasks were enqueued and each was dequeued once.
C18_Witness ==
    /\ Joined
    /\ WorkEnqueued = 2
    /\ \A t \in BagToSet(hist.enqueued) : t.path # NULL => CopiesIn(t, hist.dequeued) = 1
    /\ \E t \in BagToSet(hist.enqueued) : t.path = NULL /\ ~BagIn(t, hist.dequeued)

-----------------------------------------------------------------------------
(* The mutex and the file system calls.                                    *)

\* Worker w is inside the function of its task.
InTaskFunction(w) ==
    \/ pc[w] \in {"get_block_size_mult", "gbsm_denied", "gbsm_denied_locked",
                  "get_size_of_dir", "shutdown_threads", "shutdown_threads_locked"}
    \/ pc[w] \in {"add_task", "add_task_locked"} /\ loc[w].ret = "get_size_of_dir"

-----------------------------------------------------------------------------
(* The writes of the shared variables.                                     *)

\* A thread created for the current target has not been joined yet.
WorkersExist == \E w \in Threads : pc[w] # "none"

\* C20: while a thread of the pool exists, a step that changes the queue, block_size,
\* t_running, permission or shutdown is a step of the thread that holds the mutex.
C20_SharedWritesUnderMutex ==
    [][(/\ WorkersExist
        /\ <<task_q, block_size, t_running, permission, shutdown>>'
               # <<task_q, block_size, t_running, permission, shutdown>>) =>
           \/ \E w \in Threads : mutex = w /\ pc'[w] # pc[w]
           \/ mutex = Main /\ mpc' # mpc
      ]_vars

\* Every one of the shared variables has been written while threads of the pool exist.
C20_Witness ==
    /\ \E w \in Threads : pc[w] \notin {"none", "done"}
    /\ shutdown
    /\ ~permission
    /\ block_size > 0
    /\ t_running > 0
    /\ task_q # <<>>

-----------------------------------------------------------------------------
(* The wait for a task.                                                    *)

\* C21: a step in which a worker leaves the loops of run_thread with a task starts
\* in a state whose queue is not empty, and the task it gives to run_task is a task
\* of that queue, never NULL.
C21_DequeueOnlyWhenNonEmpty ==
    [][\A w \in Threads :
          (pc[w] # "run_task" /\ pc'[w] = "run_task") =>
              /\ ~queue_is_empty(task_q)
              /\ loc'[w].task # NoTask
              /\ \E k \in 1..Len(task_q) :
                     /\ loc'[w].task.path = task_q[k].path
                     /\ task_q' = list_remove(task_q, k)
      ]_vars

\* A worker has woken up and holds the mutex again, the queue is empty and shutdown is
\* not set: the wakeup was spurious or another worker took the task.
C21_Witness ==
    \E w \in Threads :
        /\ pc[w] = "rt_wait_loop"
        /\ mutex = w
        /\ queue_is_empty(task_q)
        /\ ~shutdown
        /\ hist.enqueued # EmptyBag

-----------------------------------------------------------------------------
(* The permission flag.                                                    *)

\* C22: permission is true when the queue has been created; no step sets it from
\* false to true, in the run of a target or between two targets; and it is false
\* whenever a thread has gone through the write that follows a failed opendir.
C22_PermissionIsLatch ==
    /\ permission = TRUE
    /\ [][~permission => ~permission']_vars
    /\ [](~permission <=>
            \E k \in 1..Len(path_names) : \E d \in Dirs :
                Diagnostics(k, d) >
                    Cardinality({w \in Threads : pc[w] \in {"gbsm_denied", "gbsm_denied_locked"}
                                                    /\ loc[w].task.path = d /\ k = current_pos}))

\* The first target had a directory that could not be opened, the second has none, and
\* the workers of the second have been joined: permission is still false.
C22_Witness ==
    /\ Joined
    /\ current_pos = 2
    /\ ~permission
    /\ Diagnostics(1, <<"r", "d">>) = 1
    /\ \A d \in Dirs : Diagnostics(2, d) = 0

-----------------------------------------------------------------------------
(* The accumulated blocks.                                                 *)

\* The blocks the visit of the directory p adds from its idx-th entry on: those of
\* "." and of the regular files, up to an entry whose status call fails, for which it
\* adds the blocks of p and stops.
RECURSIVE BlocksFrom(_, _)
BlocksFrom(p, idx) ==
    IF idx > Len(readdir(p)) THEN 0
    ELSE LET name == readdir(p)[idx]
             buf == lstat(make_path(name, p))
         IN  IF buf.check < 0 THEN lstat(p).st_blocks
             ELSE (IF name = "." \/ (name # ".." /\ S_ISREG(buf)) THEN buf.st_blocks ELSE 0)
                      + BlocksFrom(p, idx + 1)

\* The blocks the regular task for the path p returns.
TaskBlocks(p) ==
    IF lstat(p).check < 0 THEN 0
    ELSE IF S_ISDIR(lstat(p)) /\ opendir(p) THEN BlocksFrom(p, 1)
    ELSE lstat(p).st_blocks

\* The paths of the regular tasks whose bookkeeping in run_task is done.
Completed ==
    {t.path : t \in {d \in BagToSet(hist.dequeued) :
                        /\ d.path # NULL
                        /\ ~\E w \in Threads : Executing(w) /\ loc[w].task.ptr.path = d.path}}

RECURSIVE SumTaskBlocks(_)
SumTaskBlocks(paths) ==
    IF paths = {} THEN 0
    ELSE LET p == CHOOSE x \in paths : TRUE IN TaskBlocks(p) + SumTaskBlocks(paths \ {p})

\* C23: in a pooled run block_size is never negative and is the sum of what the
\* regular tasks completed so far for the current target returned; no step before the
\* reset makes it smaller; and the bookkeeping of a kill task leaves it unchanged.
C23_BlocksAreSumOfCompleted ==
    /\ [](Pooled => block_size >= 0 /\ block_size = SumTaskBlocks(Completed))
    /\ [][/\ (Pooled /\ mpc # "reset") => block_size' >= block_size
          /\ \A w \in Threads :
                (pc[w] = "run_task_locked" /\ pc'[w] # pc[w] /\ IsSentinel(loc[w].task)) =>
                    block_size' = block_size
         ]_vars

\* The four tasks of the tree r are completed, and a worker has just done the
\* bookkeeping of a kill task.
C23_Witness ==
    /\ Pooled
    /\ Cardinality(Completed) = 4
    /\ block_size = 63
    /\ \E w \in Threads : pc[w] = "kill_task_initializer" /\ IsSentinel(loc[w].task)

-----------------------------------------------------------------------------
(* The failures of the pthread calls.                                      *)

\* C24: once pthread_cond_signal, pthread_cond_wait, pthread_create or pthread_join
\* has reported a failure, the process has ended with EXIT_FAILURE.
C24_PthreadFailureIsFatal ==
    hist.failed # {} => mpc = "exit" /\ exit_status = "EXIT_FAILURE"

-----------------------------------------------------------------------------
(* A directory that cannot be opened.                                      *)

\* The paths that get a task in the pooled run of a root: the root, and the entries
\* reachable from it that are no regular files.
TaskPaths(root) == {root} \cup {p \in Reachable(root) : St_mode[p] # "REG"}

\* C25: the worker that could not open a directory returns the directory's own block
\* count and sets permission to false, and leaves the queue and the shutdown flag as
\* they are; and when every status call succeeds and the traversal of a root, pooled
\* or recursive, has met a directory that cannot be opened, then at the print of the
\* total one diagnostic was printed for it, permission is false, every other task
\* has been completed, and the total is the sum over every entry reachable from the
\* root, the directory itself included and nothing below it.
C25_OpenFailureDoesNotStopRun ==
    /\ [][\A w \in Threads :
            (pc[w] = "gbsm_denied_locked" /\ pc'[w] # pc[w]) =>
                /\ loc'[w].temp_block_size = St_blocks[loc[w].task.path]
                /\ permission' = FALSE
                /\ task_q' = task_q
                /\ shutdown' = shutdown
         ]_vars
    /\ []((mpc = "printf" /\ fs.stat_fail = {}) =>
            LET root == path_names[current_pos] IN
            \A d \in fs.open_fail \cap Reachable(root) :
                /\ Diagnostics(current_pos, d) = 1
                /\ ~permission
                /\ block_size = SumBlocks(Reachable(root))
                /\ Pooled => Completed = TaskPaths(root))

\* The workers of the run of r are joined; r/d could not be opened; its siblings a and
\* u and r itself are counted with it: 1 + 2 + 4 + 8.
C25_Witness ==
    /\ Joined
    /\ path_names[current_pos] = <<"r">>
    /\ fs = [stat_fail |-> {}, open_fail |-> {<<"r", "d">>}]
    /\ block_size = 15
    /\ Completed = {<<"r">>, <<"r", "d">>, <<"r", "u">>}
    /\ ~permission

-----------------------------------------------------------------------------
(* A child whose status call fails.                                        *)

\* The index of the first entry of the directory p whose status call fails, or one
\* more than the number of entries.
FirstFail(p) ==
    LET failing == {k \in 1..Len(readdir(p)) : lstat(make_path(readdir(p)[k], p)).check < 0}
    IN  IF failing = {} THEN Len(readdir(p)) + 1
        ELSE CHOOSE k \in failing : \A j \in failing : k <= j

\* The entries of p handed on as directories before the iteration of p ends.
SubTasks(p) ==
    {make_path(readdir(p)[k], p) :
        k \in {j \in 1..(FirstFail(p) - 1) :
                  /\ readdir(p)[j] \notin {".", ".."}
                  /\ ~S_ISREG(lstat(make_path(readdir(p)[j], p)))}}

\* The paths visited from p on, p included.
RECURSIVE Visited(_)
Visited(p) ==
    {p} \cup (IF lstat(p).check = 0 /\ S_ISDIR(lstat(p)) /\ opendir(p)
              THEN UNION {Visited(c) : c \in SubTasks(p)}
              ELSE {})

\* Worker w is about to read an entry of the directory it visits, and the status call
\* of that entry fails.
StatBreak(w) ==
    /\ pc[w] = "get_size_of_dir"
    /\ loc[w].idx = FirstFail(loc[w].task.path)
    /\ loc[w].idx <= Len(readdir(loc[w].task.path))

\* The paths of the regular tasks given to add_task in the run of the current target.
EnqueuedPaths == {t.path : t \in {d \in BagToSet(hist.enqueued) : d.path # NULL}}

\* C26: the step of a worker whose status call of a child fails ends the visit of the
\* directory P with what was added so far plus the block count of P, and enqueues
\* nothing; and at the print of the total, in the pooled and in the recursive
\* traversal, the total is made of the visits of the root and of the entries handed on
\* before the iteration of their parent ended, the pooled run has enqueued a task
\* for each of these and for nothing else, and has completed each.
C26_StatFailureEndsIteration ==
    /\ [][\A w \in Threads :
            (StatBreak(w) /\ pc'[w] # pc[w]) =>
                /\ pc'[w] = "run_task_lock"
                /\ loc'[w].temp_block_size =
                       loc[w].block_size + St_blocks[loc[w].task.path]
                /\ task_q' = task_q
                /\ hist'.enqueued = hist.enqueued
         ]_vars
    /\ [](mpc = "printf" =>
            LET root == path_names[current_pos] IN
            /\ block_size = SumTaskBlocks(Visited(root))
            /\ Pooled => EnqueuedPaths = Visited(root) /\ Completed = Visited(root))

\* The status call of r/u fails after r/d was enqueued: the iteration of r ends with
\* 1 + 2 + 1, r/d and r/d/l are still visited (4 + 16 and 32), r/u is not.
C26_Witness ==
    /\ Joined
    /\ path_names[current_pos] = <<"r">>
    /\ fs = [stat_fail |-> {<<"r", "u">>}, open_fail |-> {}]
    /\ Completed = {<<"r">>, <<"r", "d">>, <<"r", "d", "l">>}
    /\ block_size = 56

-----------------------------------------------------------------------------
(* An entry whose status call fails.                                       *)

\* The total of p when an entry whose status call fails counts zero and the
\* iteration of its parent goes on with the next entry.
RECURSIVE SkipTotal(_)
RECURSIVE SumOfSkipTotals(_)
SkipTotal(p) ==
    IF lstat(p).check < 0 THEN 0
    ELSE IF S_ISDIR(lstat(p)) /\ opendir(p)
    THEN St_blocks[p] + SumOfSkipTotals(Children(p))
    ELSE St_blocks[p]

SumOfSkipTotals(entries) ==
    IF entries = {} THEN 0
    ELSE LET e == CHOOSE x \in entries : TRUE
         IN  SkipTotal(e) + SumOfSkipTotals(entries \ {e})

\* C27: every total printed is the total in which an entry whose status call fails,
\* root target or child, counts zero and nothing else changes, and no diagnostic is
\* printed for such an entry.
C27_FailedStatusCountsZero ==
    /\ \A k \in 1..Len(stdout) : stdout[k].block_size = SkipTotal(path_names[k])
    /\ \A k \in 1..Len(path_names) : \A d \in Dirs \cap fs.stat_fail : Diagnostics(k, d) = 0

-----------------------------------------------------------------------------
(* The entries that become tasks.                                          *)

\* C28: in a pooled run every task given to add_task, other than the start task of
\* the target, is the task of a directory.
C28_OnlyDirectoriesBecomeTasks ==
    Pooled =>
        \A p \in EnqueuedPaths \ {path_names[current_pos]} : St_mode[p] = "DIR"

-----------------------------------------------------------------------------
(* The kill tasks and the workers that need one.                           *)

\* The number of kill tasks in the queue.
SentinelsInQueue == Cardinality({k \in 1..Len(task_q) : IsSentinel(task_q[k])})

\* The number of kill tasks the workers have dequeued in the run of the current target.
SentinelsDequeued ==
    BagCardinality([t \in {x \in BagToSet(hist.dequeued) : x.path = NULL} |->
                        hist.dequeued[t]])

\* Worker w has returned from run_thread, or has been joined.
Exited(w) == pc[w] \in {"done", "none"}

\* A worker that holds a kill task, while it runs it and afterwards, finds shutdown set
\* at the test of its loop and so dequeues no second task.
AtMostOneSentinelEach ==
    \A w \in Threads :
        (IsSentinel(loc[w].task) /\ pc[w] \in {"kill_task_initializer", "rt_relock",
                                                "rt_kill_task"}) => shutdown

\* C29 as claimed: a worker dequeues no task after a kill task; once thread_amount kill
\* tasks have been enqueued, the queue holds at least as many kill tasks as there are
\* workers that have not exited and are not executing a kill task; and when the main
\* thread has joined the workers, the kill tasks dequeued and those left in the queue
\* are thread_amount together.
C29_SentinelForEachWorkerNotExecuting ==
    Pooled =>
        /\ AtMostOneSentinelEach
        /\ SentinelsEnqueued = thread_amount =>
               SentinelsInQueue >=
                   Cardinality({w \in 1..thread_amount :
                                   ~Exited(w) /\ ~(Executing(w) /\ IsSentinel(loc[w].task))})
        /\ Joined => SentinelsDequeued + SentinelsInQueue = thread_amount

\* C29 as amended: the same, counting the workers that have not exited and have not
\* dequeued a kill task, whether they still execute it or are on their way out.
C29_SentinelForEachWorkerWithoutOne ==
    Pooled =>
        /\ AtMostOneSentinelEach
        /\ SentinelsEnqueued = thread_amount =>
               SentinelsInQueue >=
                   Cardinality({w \in 1..thread_amount :
                                   ~Exited(w) /\ ~IsSentinel(loc[w].task)})
        /\ Joined => SentinelsDequeued + SentinelsInQueue = thread_amount

\* Every kill task is enqueued; one worker has run one and is on its way out, the
\* other has none yet and one is left for it.
C29_Witness ==
    /\ Pooled
    /\ SentinelsEnqueued = thread_amount
    /\ SentinelsInQueue = 1
    /\ \E w, x \in 1..thread_amount :
          /\ pc[w] = "rt_relock" /\ IsSentinel(loc[w].task)
          /\ ~Exited(x) /\ ~IsSentinel(loc[x].task)

-----------------------------------------------------------------------------
(* The start of the run of a later target.                                 *)

\* C30: while the main thread creates the workers of a target, first or later, the
\* queue is empty, shutdown is false and t_running and block_size are 0; and in the
\* run of a target a kill task is in the queue or held by a worker, or shutdown is set,
\* only after a worker of that run has found the condition of kill_task_initializer
\* true, with no regular task queued or executed any more.
C30_LaterRootStartsClean ==
    Pooled =>
        /\ mpc = "pthread_create" =>
               task_q = <<>> /\ ~shutdown /\ t_running = 0 /\ block_size = 0
        /\ SentinelInjected =>
               /\ hist.quiescent = 1
               /\ \A k \in 1..Len(task_q) : ~IsWork(task_q[k])
               /\ \A w \in Threads : Executing(w) => ~IsWork(loc[w].task)

\* The second target, r/d, has been processed in full after the run of r.
C30_Witness ==
    /\ Joined
    /\ current_pos = 2
    /\ path_names = << <<"r">>, <<"r", "d">> >>
    /\ fs = [stat_fail |-> {}, open_fail |-> {}]
    /\ stdout = << [block_size |-> 63, path |-> <<"r">>] >>
    /\ block_size = 52
    /\ SentinelsInQueue = 1

=============================================================================
